---- MODULE Spec2Model ----
(***************************************************************************)
(* Model of src/bootinfo/memory_map.rs: the boot-time physical memory map  *)
(* (MemoryMap), its regions (MemoryRegion, FrameRange) and the conversion  *)
(* from E820 firmware descriptors.                                         *)
(*                                                                         *)
(* Scaling.  The source stores 64 regions and computes on u64.  The model  *)
(* keeps the code's structure and scales both: the array has               *)
(* MAX_MEMORY_MAP_SIZE slots (64 in the source) and the unsigned word has  *)
(* WordBits bits (64 in the source), so that an overflow of the word and   *)
(* an overflow of the array are both reachable.  PAGE_SIZE is the          *)
(* source's.                                                               *)
(*                                                                         *)
(* Indexing.  entries is a sequence: entries[i + 1] is the source's        *)
(* self.entries[i].  next_entry_index and the result of position are the   *)
(* source's 0-based values.                                                *)
(***************************************************************************)
EXTENDS Integers, Sequences, FiniteSets

(***************************************************************************)
(* Constants of the program and bounds of the model                        *)
(***************************************************************************)
PAGE_SIZE == 4096

\* 64 in the source (memory_map.rs:6); scaled, see above.
MAX_MEMORY_MAP_SIZE == 3

\* Width of the unsigned word that models u64.
WordBits == 16

\* Largest frame number of the regions a caller builds by hand.
MaxFrame == 2

\* Number of add_region calls that store a region in one run.
MaxAdds == 3

\* Largest firmware type code tried (the valid codes are 1..5).
MaxTypeCode == 6

\* 2^WordBits: the first value the word cannot hold.
WordModulus == 2 ^ WordBits

VARIABLES
    entries,            \* MemoryMap.entries
    next_entry_index,   \* MemoryMap.next_entry_index
    added,              \* ghost: how often each region was stored by add_region
    calls,              \* ghost: number of add_region calls that stored a region
    range,              \* the FrameRange last returned by FrameRange::new
    region,             \* the MemoryRegion last returned by the conversion
    ret,                \* the value last returned by a FrameRange method
    op,                 \* ghost: name of the last operation called
    input,              \* ghost: argument of the last constructor / add_region
    panicked,           \* the program ended in a panic (fatal failure)
    overflow_checks     \* build configuration: arithmetic overflow panics

vars == <<entries, next_entry_index, added, calls, range, region, ret, op, input,
          panicked, overflow_checks>>

(***************************************************************************)
(* Unsigned arithmetic.  An operation of the source on u64 yields the      *)
(* wrapped value and tells whether it overflowed; whether an overflow      *)
(* panics or wraps depends on the build (overflow_checks).                 *)
(***************************************************************************)
Arith(raw) ==
    [value    |-> ((raw % WordModulus) + WordModulus) % WordModulus,
     overflow |-> raw < 0 \/ raw >= WordModulus]

\* Outcome of a call: a panic, or a returned value.
Panic == [panic |-> TRUE, value |-> <<>>]

Return(v) == [panic |-> FALSE, value |-> v]

(***************************************************************************)
(* MemoryRegionType, FrameRange, MemoryRegion                              *)
(***************************************************************************)
MemoryRegionType ==
    {"Usable", "InUse", "Reserved", "AcpiReclaimable", "AcpiNvs", "BadMemory",
     "Kernel", "KernelStack", "PageTable", "Bootloader", "FrameZero", "Empty",
     "BootInfo", "Package"}

FrameRange(s, e) == [start_frame_number |-> s, end_frame_number |-> e]

MemoryRegion(r, t) == [range |-> r, region_type |-> t]

MemoryRegion_empty_one_frame == MemoryRegion(FrameRange(0, 1), "Empty")

MemoryRegion_empty == MemoryRegion(FrameRange(0, 0), "Empty")

FrameRange_new_no_last_byte(start_addr, end_addr) ==
    LET add == Arith((end_addr \div PAGE_SIZE) + 1)
    IN  IF overflow_checks /\ add.overflow
        THEN Panic
        ELSE Return(FrameRange(start_addr \div PAGE_SIZE, add.value))

FrameRange_new_no_round_up(start_addr, end_addr) ==
    LET sub == Arith(end_addr - 1)
    IN  IF overflow_checks /\ sub.overflow
        THEN Panic
        ELSE Return(FrameRange(start_addr \div PAGE_SIZE,
                               sub.value \div PAGE_SIZE))

FrameRange_new(start_addr, end_addr) ==
    LET sub == Arith(end_addr - 1)
        last_byte == sub.value
        add == Arith((last_byte \div PAGE_SIZE) + 1)
    IN  IF overflow_checks /\ (sub.overflow \/ add.overflow)
        THEN Panic
        ELSE Return(FrameRange(start_addr \div PAGE_SIZE, add.value))

is_empty(r) == r.start_frame_number = r.end_frame_number

start_addr(r) ==
    LET mul == Arith(r.start_frame_number * PAGE_SIZE)
    IN  IF overflow_checks /\ mul.overflow THEN Panic ELSE Return(mul.value)

end_addr(r) ==
    LET mul == Arith(r.end_frame_number * PAGE_SIZE)
    IN  IF overflow_checks /\ mul.overflow THEN Panic ELSE Return(mul.value)

(***************************************************************************)
(* MemoryMap::sort                                                         *)
(***************************************************************************)
\* u64::cmp
cmp(a, b) == IF a < b THEN "Less" ELSE IF a > b THEN "Greater" ELSE "Equal"

compare_start_only(r1, r2) ==
    IF is_empty(r1.range) THEN "Greater"
    ELSE IF is_empty(r2.range) THEN "Less"
    ELSE cmp(r1.range.start_frame_number, r2.range.start_frame_number)

compare_ignoring_empty(r1, r2) ==
    LET ordering == cmp(r1.range.start_frame_number,
                        r2.range.start_frame_number)
    IN  IF ordering = "Equal"
        THEN cmp(r1.range.end_frame_number, r2.range.end_frame_number)
        ELSE ordering

\* The closure passed to sort_unstable_by.
compare(r1, r2) ==
    IF is_empty(r1.range) THEN "Greater"
    ELSE IF is_empty(r2.range) THEN "Less"
    ELSE LET ordering == cmp(r1.range.start_frame_number,
                             r2.range.start_frame_number)
         IN  IF ordering = "Equal"
             THEN cmp(r1.range.end_frame_number, r2.range.end_frame_number)
             ELSE ordering

\* sort_unstable_by asks the closure only whether the answer is Less.
is_less(a, b) == compare(a, b) = "Less"

IsSorted(s) ==
    \A i, j \in 1..Len(s) : i < j => ~is_less(s[j], s[i])

InsertAt(s, k, x) == SubSeq(s, 1, k - 1) \o <<x>> \o SubSeq(s, k, Len(s))

\* Every arrangement of s that is sorted.  A part of a sorted sequence is
\* sorted, so the unsorted ones are dropped as soon as they appear.
RECURSIVE SortedArrangements(_)
SortedArrangements(s) ==
    IF s = <<>>
    THEN {<<>>}
    ELSE {a \in {InsertAt(t, k, Head(s)) :
                     t \in SortedArrangements(Tail(s)), k \in 1..Len(s)} :
              IsSorted(a)}

sort_unstable_by_nothing(s) == {s}

\* The outcomes of self.entries.sort_unstable_by(..): the sort is unstable,
\* so elements the closure does not order may end in any order.
sort_unstable_by(s) == SortedArrangements(s)

\* self.entries.iter().position(|r| r.range.is_empty()): the 0-based index
\* of the first empty entry, -1 for None.
position(s) ==
    LET found == {i \in 1..Len(s) : is_empty(s[i].range)}
    IN  IF found = {} THEN -1
        ELSE (CHOOSE i \in found : \A j \in found : i <= j) - 1

\* The maps sort() can leave, from the map m.
sort(m) ==
    {[entries |-> e,
      next_entry_index |-> IF position(e) # -1 THEN position(e)
                           ELSE m.next_entry_index] :
         e \in sort_unstable_by(m.entries)}

\* Deref: the read view.
deref == SubSeq(entries, 1, next_entry_index)

(***************************************************************************)
(* Inputs                                                                  *)
(***************************************************************************)
\* The regions of the documentation's scenario.
ScenarioRegions ==
    {MemoryRegion(FrameRange(2, 3), "Usable"),
     MemoryRegion(FrameRange(0, 1), "Reserved"),
     MemoryRegion(FrameRange(1, 2), "Kernel")}

\* Regions a caller builds by hand (the fields are pub): every range over
\* the frames 0..MaxFrame as Usable, empty and reversed ones included, the
\* scenario's regions, and an empty range under another tag.
Regions ==
    {MemoryRegion(FrameRange(s, e), "Usable") : s, e \in 0..MaxFrame}
    \cup ScenarioRegions
    \cup {MemoryRegion(FrameRange(1, 1), "Reserved")}

\* Byte addresses: around the first page boundaries, the example of the
\* documentation, and around the top of the word.
Addresses ==
    {0, 1, PAGE_SIZE - 1, PAGE_SIZE, PAGE_SIZE + 1, 2 * PAGE_SIZE, 8202, 20480,
     WordModulus - PAGE_SIZE - 1, WordModulus - PAGE_SIZE,
     WordModulus - PAGE_SIZE + 1, WordModulus - 1}

(***************************************************************************)
(* MemoryMap::new and MemoryMap::add_region                                *)
(***************************************************************************)
Init ==
    /\ entries = [i \in 1..MAX_MEMORY_MAP_SIZE |-> MemoryRegion_empty]
    /\ next_entry_index = 0
    /\ added = [r \in Regions |-> 0]
    /\ calls = 0
    /\ range = FrameRange(0, 0)
    /\ region = MemoryRegion_empty
    /\ ret = 0
    /\ op = "new"
    /\ input = <<>>
    /\ panicked = FALSE
    /\ overflow_checks \in BOOLEAN

add_region_overwrite(r) ==
    /\ ~panicked
    /\ LET idx == IF next_entry_index < MAX_MEMORY_MAP_SIZE
                  THEN next_entry_index ELSE MAX_MEMORY_MAP_SIZE - 1
       IN  \E m \in sort([entries |-> [entries EXCEPT ![idx + 1] = r],
                          next_entry_index |-> idx + 1]) :
               /\ entries' = m.entries
               /\ next_entry_index' = m.next_entry_index
    /\ added' = [added EXCEPT ![r] = @ + 1]
    /\ calls' = calls + 1
    /\ op' = "add_region"
    /\ input' = r
    /\ UNCHANGED <<range, region, ret, panicked, overflow_checks>>

add_region_no_increment(r) ==
    /\ ~panicked
    /\ IF next_entry_index < MAX_MEMORY_MAP_SIZE
       THEN /\ \E m \in sort([entries |->
                                 [entries EXCEPT ![next_entry_index + 1] = r],
                              next_entry_index |-> next_entry_index]) :
                   /\ entries' = m.entries
                   /\ next_entry_index' = m.next_entry_index
            /\ added' = [added EXCEPT ![r] = @ + 1]
            /\ calls' = calls + 1
            /\ UNCHANGED panicked
       ELSE /\ panicked' = TRUE
            /\ UNCHANGED <<entries, next_entry_index, added, calls>>
    /\ op' = "add_region"
    /\ input' = r
    /\ UNCHANGED <<range, region, ret, overflow_checks>>

add_region_write_twice(r) ==
    /\ ~panicked
    /\ IF next_entry_index < MAX_MEMORY_MAP_SIZE
       THEN /\ \E m \in sort([entries |->
                                 [i \in 1..MAX_MEMORY_MAP_SIZE |->
                                     IF i \in {next_entry_index + 1,
                                               next_entry_index + 2}
                                     THEN r ELSE entries[i]],
                              next_entry_index |-> next_entry_index + 1]) :
                   /\ entries' = m.entries
                   /\ next_entry_index' = m.next_entry_index
            /\ added' = [added EXCEPT ![r] = @ + 1]
            /\ calls' = calls + 1
            /\ UNCHANGED panicked
       ELSE /\ panicked' = TRUE
            /\ UNCHANGED <<entries, next_entry_index, added, calls>>
    /\ op' = "add_region"
    /\ input' = r
    /\ UNCHANGED <<range, region, ret, overflow_checks>>

add_region_no_assert(r) ==
    /\ ~panicked
    /\ \E m \in sort([entries |->
                          [i \in 1..MAX_MEMORY_MAP_SIZE |->
                              IF i = next_entry_index + 1 THEN r
                              ELSE entries[i]],
                      next_entry_index |-> next_entry_index + 1]) :
           /\ entries' = m.entries
           /\ next_entry_index' = m.next_entry_index
    /\ added' = [added EXCEPT ![r] = @ + 1]
    /\ calls' = calls + 1
    /\ op' = "add_region"
    /\ input' = r
    /\ UNCHANGED <<range, region, ret, panicked, overflow_checks>>

add_region(r) ==
    /\ ~panicked
    /\ IF next_entry_index < MAX_MEMORY_MAP_SIZE
       THEN /\ \E m \in sort([entries |->
                                 [entries EXCEPT ![next_entry_index + 1] = r],
                              next_entry_index |-> next_entry_index + 1]) :
                   /\ entries' = m.entries
                   /\ next_entry_index' = m.next_entry_index
            /\ added' = [added EXCEPT ![r] = @ + 1]
            /\ calls' = calls + 1
            /\ UNCHANGED panicked
       ELSE /\ panicked' = TRUE
            /\ UNCHANGED <<entries, next_entry_index, added, calls>>
    /\ op' = "add_region"
    /\ input' = r
    /\ UNCHANGED <<range, region, ret, overflow_checks>>

\* A run stores at most MaxAdds regions; a call on a full map is always tried.
AddRegion ==
    /\ calls < MaxAdds \/ next_entry_index >= MAX_MEMORY_MAP_SIZE
    /\ \E r \in Regions : add_region(r)

Next == AddRegion

Spec == Init /\ [][Next]_vars

(***************************************************************************)
(* The rest of MemoryMap's public interface: sort() called by the holder,  *)
(* and writes through DerefMut                                             *)
(***************************************************************************)
\* map.sort()
CallSort ==
    /\ ~panicked
    /\ \E m \in sort([entries |-> entries,
                      next_entry_index |-> next_entry_index]) :
           /\ entries' = m.entries
           /\ next_entry_index' = m.next_entry_index
    /\ op' = "sort"
    /\ UNCHANGED <<added, calls, range, region, ret, input, panicked,
                   overflow_checks>>

deref_mut_whole == entries

\* DerefMut: the slice handed out for writing.
deref_mut == SubSeq(entries, 1, next_entry_index)

\* Regions a holder writes through the mutable view: the placeholder, and a
\* region under a tag that marks it as used.
WrittenRegions ==
    {MemoryRegion_empty, MemoryRegion(FrameRange(0, 1), "InUse")}

\* map[i] = r: indexing the slice past its end panics.
DerefMutWrite(i, r) ==
    /\ ~panicked
    /\ IF i < Len(deref_mut)
       THEN entries' = [entries EXCEPT ![i + 1] = r] /\ UNCHANGED panicked
       ELSE panicked' = TRUE /\ UNCHANGED entries
    /\ op' = "deref_mut"
    /\ UNCHANGED <<next_entry_index, added, calls, range, region, ret, input,
                   overflow_checks>>

\* add_region and sort(): the map as the discovery phase may build it.
NextSort ==
    \/ AddRegion
    \/ CallSort

SpecSort == Init /\ [][NextSort]_vars

\* Regions added in the runs that also sort and write: the scenario's, an
\* empty range, and a range that shares its start with another.
HolderRegions ==
    ScenarioRegions
    \cup {MemoryRegion(FrameRange(1, 1), "Reserved"),
          MemoryRegion(FrameRange(0, 2), "Usable")}

AddHolderRegion ==
    /\ calls < MaxAdds \/ next_entry_index >= MAX_MEMORY_MAP_SIZE
    /\ \E r \in HolderRegions : add_region(r)

\* Every operation a holder of the map can call.
NextPublic ==
    \/ AddHolderRegion
    \/ CallSort
    \/ \E i \in 0..(MAX_MEMORY_MAP_SIZE - 1), r \in WrittenRegions :
           DerefMutWrite(i, r)

SpecPublic == Init /\ [][NextPublic]_vars

(***************************************************************************)
(* The closure of sort(), called on its own                                *)
(***************************************************************************)
\* Regions the closure is tried on: the placeholder and the caller's.
ComparedRegions == Regions \cup {MemoryRegion_empty}

\* let ret = compare(&a, &b);
CallCompare(a, b) ==
    /\ ~panicked
    /\ ret' = compare(a, b)
    /\ op' = "compare"
    /\ input' = <<a, b>>
    /\ UNCHANGED <<entries, next_entry_index, added, calls, range, region,
                   panicked, overflow_checks>>

NextCompare == \E a, b \in ComparedRegions : CallCompare(a, b)

SpecCompare == Init /\ [][NextCompare]_vars

(***************************************************************************)
(* FrameRange::new and the methods of FrameRange, called on their own      *)
(***************************************************************************)
\* let range = FrameRange::new(s, e);
CallFrameRangeNew(s, e) ==
    /\ ~panicked
    /\ LET out == FrameRange_new(s, e)
       IN  IF out.panic
           THEN panicked' = TRUE /\ UNCHANGED range
           ELSE range' = out.value /\ UNCHANGED panicked
    /\ op' = "FrameRange::new"
    /\ input' = [start_addr |-> s, end_addr |-> e]
    /\ UNCHANGED <<entries, next_entry_index, added, calls, region, ret,
                   overflow_checks>>

\* range.is_empty()
CallIsEmpty ==
    /\ ~panicked
    /\ op # "new"
    /\ ret' = is_empty(range)
    /\ op' = "is_empty"
    /\ UNCHANGED <<entries, next_entry_index, added, calls, range, region,
                   input, panicked, overflow_checks>>

\* range.start_addr()
CallStartAddr ==
    /\ ~panicked
    /\ op # "new"
    /\ LET out == start_addr(range)
       IN  IF out.panic
           THEN panicked' = TRUE /\ UNCHANGED ret
           ELSE ret' = out.value /\ UNCHANGED panicked
    /\ op' = "start_addr"
    /\ UNCHANGED <<entries, next_entry_index, added, calls, range, region,
                   input, overflow_checks>>

\* range.end_addr()
CallEndAddr ==
    /\ ~panicked
    /\ op # "new"
    /\ LET out == end_addr(range)
       IN  IF out.panic
           THEN panicked' = TRUE /\ UNCHANGED ret
           ELSE ret' = out.value /\ UNCHANGED panicked
    /\ op' = "end_addr"
    /\ UNCHANGED <<entries, next_entry_index, added, calls, range, region,
                   input, overflow_checks>>

NextRange ==
    \/ \E s, e \in Addresses : CallFrameRangeNew(s, e)
    \/ CallIsEmpty
    \/ CallStartAddr
    \/ CallEndAddr

SpecRange == Init /\ [][NextRange]_vars

(***************************************************************************)
(* From<E820MemoryRegion> for MemoryRegion                                 *)
(***************************************************************************)
E820MemoryRegion(s, l, t, a) ==
    [start_addr |-> s, len |-> l, region_type |-> t,
     acpi_extended_attributes |-> a]

\* Lengths of the descriptors tried.
Lengths ==
    {0, 1, PAGE_SIZE - 1, PAGE_SIZE, PAGE_SIZE + 1, WordModulus - PAGE_SIZE,
     WordModulus - 1}

Descriptors ==
    {E820MemoryRegion(s, l, t, a) :
         s \in Addresses, l \in Lengths, t \in 0..MaxTypeCode, a \in {0, 1}}

region_type_of_default_reserved(code) ==
    CASE code = 1 -> "Usable"
      [] code = 3 -> "AcpiReclaimable"
      [] code = 4 -> "AcpiNvs"
      [] code = 5 -> "BadMemory"
      [] OTHER -> "Reserved"

\* The match on region.region_type; "" stands for the panicking arm.
region_type_of(code) ==
    CASE code = 1 -> "Usable"
      [] code = 2 -> "Reserved"
      [] code = 3 -> "AcpiReclaimable"
      [] code = 4 -> "AcpiNvs"
      [] code = 5 -> "BadMemory"
      [] OTHER -> ""

from(d) ==
    LET region_type == region_type_of(d.region_type)
        sum == Arith(d.start_addr + d.len)
    IN  IF region_type = "" THEN Panic
        ELSE IF overflow_checks /\ sum.overflow THEN Panic
        ELSE LET r == FrameRange_new(d.start_addr, sum.value)
             IN  IF r.panic THEN Panic
                 ELSE Return(MemoryRegion(r.value, region_type))

\* let region = MemoryRegion::from(d);
CallFrom(d) ==
    /\ ~panicked
    /\ LET out == from(d)
       IN  IF out.panic
           THEN panicked' = TRUE /\ UNCHANGED region
           ELSE region' = out.value /\ UNCHANGED panicked
    /\ op' = "from"
    /\ input' = d
    /\ UNCHANGED <<entries, next_entry_index, added, calls, range, ret,
                   overflow_checks>>

NextAdapter == \E d \in Descriptors : CallFrom(d)

SpecAdapter == Init /\ [][NextAdapter]_vars

(***************************************************************************)
(* Properties of the memory map (specification Spec)                       *)
(***************************************************************************)
\* a sorts before b, or with it, by (start_frame_number, end_frame_number)
KeyLeq(a, b) ==
    \/ a.range.start_frame_number < b.range.start_frame_number
    \/ /\ a.range.start_frame_number = b.range.start_frame_number
       /\ a.range.end_frame_number <= b.range.end_frame_number

KeyLess(a, b) == KeyLeq(a, b) /\ a.range # b.range

\* number of positions of the read view that hold r
CountInView(r) == Cardinality({i \in 1..next_entry_index : entries[i] = r})

\* the regions add_region has stored so far
AddedSet == {r \in Regions : added[r] > 0}

\* the regions of S in strictly ascending key order
AscendingByKey(S) ==
    CHOOSE s \in [1..Cardinality(S) -> S] :
        \A i, j \in 1..Cardinality(S) : i < j => KeyLess(s[i], s[j])

\* C1: after each add_region call within capacity every entry of the
\* occupied prefix [0, next_entry_index) has a non-empty range and the
\* prefix is sorted ascending by (start_frame_number, end_frame_number).
C1_PrefixSortedNonEmpty ==
    \A i \in 1..next_entry_index :
        /\ entries[i].range.start_frame_number
               # entries[i].range.end_frame_number
        /\ \A j \in 1..next_entry_index :
               i < j => KeyLeq(entries[i], entries[j])

\* C1 witness: a full map whose last added region was sorted to the front,
\* before a region with the same start and a larger end.
C1_Witness ==
    /\ op = "add_region"
    /\ calls = MAX_MEMORY_MAP_SIZE
    /\ next_entry_index = MAX_MEMORY_MAP_SIZE
    /\ input = entries[1]
    /\ entries[1].range.start_frame_number
           = entries[2].range.start_frame_number
    /\ entries[1].range.end_frame_number < entries[2].range.end_frame_number

\* C2: add_region on a map that already holds MAX_MEMORY_MAP_SIZE regions
\* ends in a panic, and the stored regions and next_entry_index are then
\* what they were before the call.
C2_FullMapAddFails ==
    [][(op' = "add_region" /\ next_entry_index = MAX_MEMORY_MAP_SIZE)
           => /\ panicked'
              /\ entries' = entries
              /\ next_entry_index' = next_entry_index]_vars

\* C2 witness: the call on the full map has happened.
C2_Witness ==
    /\ panicked
    /\ op = "add_region"
    /\ next_entry_index = MAX_MEMORY_MAP_SIZE
    /\ \A i \in 1..MAX_MEMORY_MAP_SIZE : entries[i] \in Regions

\* C3 as claimed: after k storing calls the read view has k entries and
\* holds every region as often as it was added, whatever its range.
C3_Orig_EveryAddInView ==
    /\ next_entry_index = calls
    /\ \A r \in Regions : CountInView(r) = added[r]

\* C3 as amended: the read view holds exactly the added regions whose range
\* is not empty, each as often as it was added; an added region with an
\* empty range is not counted and not shown.
C3_ViewIsNonEmptyAdded ==
    /\ \A i \in 1..next_entry_index : entries[i] \in AddedSet
    /\ \A r \in Regions :
           CountInView(r) = IF r.range.start_frame_number
                                 = r.range.end_frame_number
                            THEN 0 ELSE added[r]

\* C3 witness: three calls, one of them with an empty range, two shown.
C3_Witness ==
    /\ op = "add_region"
    /\ calls = 3
    /\ next_entry_index = 2
    /\ \E r \in AddedSet : r.range.start_frame_number = r.range.end_frame_number

\* C4 as claimed: every slot in [next_entry_index, MAX_MEMORY_MAP_SIZE) is
\* the placeholder (range 0..0, tag Empty), never a region a caller added.
C4_Orig_TailIsPlaceholder ==
    \A i \in (next_entry_index + 1)..MAX_MEMORY_MAP_SIZE :
        entries[i] = MemoryRegion_empty

\* C4 as amended: every slot in [next_entry_index, MAX_MEMORY_MAP_SIZE) has
\* an empty range; it holds the placeholder or an empty-range region that
\* a caller added (under the caller's tag), never a non-empty region.
C4_TailIsEmptyRange ==
    \A i \in (next_entry_index + 1)..MAX_MEMORY_MAP_SIZE :
        /\ entries[i].range.start_frame_number
               = entries[i].range.end_frame_number
        /\ entries[i] = MemoryRegion_empty \/ entries[i] \in AddedSet

\* C4 witness: a slot after a non-empty prefix holds a caller's region.
C4_Witness ==
    /\ op = "add_region"
    /\ next_entry_index >= 1
    /\ \E i \in (next_entry_index + 1)..MAX_MEMORY_MAP_SIZE :
           entries[i] \in AddedSet

\* the added regions are non-empty, added once, with distinct keys
AddedDistinctKeys ==
    \A r \in AddedSet :
        /\ added[r] = 1
        /\ r.range.start_frame_number # r.range.end_frame_number
        /\ \A q \in AddedSet : q # r => q.range # r.range

\* C5: when the added regions are non-empty with pairwise distinct keys, the
\* read view is these regions in ascending key order, whatever the order
\* of the add_region calls was.
C5_ViewIsAscendingKeys ==
    AddedDistinctKeys => deref = AscendingByKey(AddedSet)

\* C5 witness: the scenario of the documentation, 0x2000.. and 0x0.. added
\* before 0x1000.., read back as Reserved, Kernel, Usable.
C5_Witness ==
    /\ op = "add_region"
    /\ input = MemoryRegion(FrameRange(1, 2), "Kernel")
    /\ deref = <<MemoryRegion(FrameRange(0, 1), "Reserved"),
                 MemoryRegion(FrameRange(1, 2), "Kernel"),
                 MemoryRegion(FrameRange(2, 3), "Usable")>>

\* C6 as claimed: no two positions of the occupied prefix hold the same
\* region, also when a region is added more than once.
C6_Orig_NoDuplicates ==
    \A i, j \in 1..next_entry_index : i < j => entries[i] # entries[j]

\* C6 as amended: two positions of the occupied prefix hold the same region
\* only if the caller added that region more than once.
C6_DuplicatesOnlyIfAddedTwice ==
    \A i, j \in 1..next_entry_index :
        (i < j /\ entries[i] = entries[j])
            => (entries[i] \in Regions /\ added[entries[i]] >= 2)

\* C6 witness: a full prefix of regions added once each, two of them with
\* the same range under different tags.
C6_Witness ==
    /\ op = "add_region"
    /\ next_entry_index = MAX_MEMORY_MAP_SIZE
    /\ \A r \in AddedSet : added[r] = 1
    /\ \E i, j \in 1..next_entry_index :
           /\ entries[i].range = entries[j].range
           /\ entries[i].region_type # entries[j].region_type

(***************************************************************************)
(* Properties of FrameRange (specification SpecRange)                      *)
(***************************************************************************)
FrameRangeOps == {"FrameRange::new", "is_empty", "start_addr", "end_addr"}

\* floor(a / 4096) and ceil(a / 4096), in unbounded integers
FloorFrame(a) == a \div PAGE_SIZE

CeilFrame(a) == (a + PAGE_SIZE - 1) \div PAGE_SIZE

\* C7 as claimed: for end > start, new(start, end) returns a range whose
\* start_addr() is floor(start / 4096) * 4096 and whose end_addr() is
\* ceil(end / 4096) * 4096, and none of the calls overflows.
C7_Orig_AddrRounding ==
    (op \in FrameRangeOps /\ input.end_addr > input.start_addr)
        => /\ ~panicked
           /\ range = FrameRange(FloorFrame(input.start_addr),
                                 CeilFrame(input.end_addr))
           /\ op = "start_addr" => ret = FloorFrame(input.start_addr) * PAGE_SIZE
           /\ op = "end_addr" => ret = CeilFrame(input.end_addr) * PAGE_SIZE

\* C7 as amended: the same, for end > start with ceil(end / 4096) * 4096
\* below 2^w (w the width of the word), that is end <= 2^w - 4096.
C7_AddrRounding ==
    (/\ op \in FrameRangeOps
     /\ input.end_addr > input.start_addr
     /\ CeilFrame(input.end_addr) * PAGE_SIZE < WordModulus)
        => /\ ~panicked
           /\ range = FrameRange(FloorFrame(input.start_addr),
                                 CeilFrame(input.end_addr))
           /\ op = "start_addr" => ret = FloorFrame(input.start_addr) * PAGE_SIZE
           /\ op = "end_addr" => ret = CeilFrame(input.end_addr) * PAGE_SIZE

\* C7 witness: new(8202, 20480) gave frames 2 and 5, end_addr() 20480.
C7_Witness ==
    /\ op = "end_addr"
    /\ input = [start_addr |-> 8202, end_addr |-> 20480]
    /\ range = FrameRange(2, 5)
    /\ ret = 20480

\* C8 as claimed: a range returned by new(start_addr, end_addr) with
\* end_addr >= 1 has start_frame_number <= end_frame_number, for all
\* start_addr.
C8_Orig_StartLeqEnd ==
    (op = "FrameRange::new" /\ input.end_addr >= 1)
        => /\ ~panicked
           /\ range.start_frame_number <= range.end_frame_number

\* C8 as amended: a range returned by new(start_addr, end_addr) with
\* end_addr >= 1 and start_addr <= end_addr has
\* start_frame_number <= end_frame_number.
C8_StartLeqEnd ==
    (/\ op = "FrameRange::new"
     /\ input.end_addr >= 1
     /\ input.start_addr <= input.end_addr)
        => /\ ~panicked
           /\ range.start_frame_number <= range.end_frame_number

\* C8 witness: new(4096, 4096) returned the empty range 1..1.
C8_Witness ==
    /\ op = "FrameRange::new"
    /\ ~panicked
    /\ input = [start_addr |-> PAGE_SIZE, end_addr |-> PAGE_SIZE]
    /\ range = FrameRange(1, 1)

\* C10: FrameRange::new(start_addr, 0) is fatal: it never returns a range.
C10_EndZeroIsFatal ==
    (op = "FrameRange::new" /\ input.end_addr = 0) => panicked

(***************************************************************************)
(* Properties of the conversion (specification SpecAdapter)                *)
(***************************************************************************)
TypeOfCode ==
    <<"Usable", "Reserved", "AcpiReclaimable", "AcpiNvs", "BadMemory">>

\* C9: the conversion maps the type codes 1..5 to Usable, Reserved,
\* AcpiReclaimable, AcpiNvs, BadMemory, whatever acpi_extended_attributes
\* is, and panics on every other code.
C9_TypeCodeMapping ==
    op = "from"
        => /\ input.region_type \notin 1..5 => panicked
           /\ ~panicked
                  => /\ input.region_type \in 1..5
                     /\ region.region_type = TypeOfCode[input.region_type]
           /\ \A a \in {0, 1} :
                  from([input EXCEPT !.acpi_extended_attributes = a]).panic
                      = panicked

\* C9 witness: code 5 with extended attributes set became BadMemory.
C9_Witness ==
    /\ op = "from"
    /\ ~panicked
    /\ input.region_type = 5
    /\ input.acpi_extended_attributes = 1
    /\ region.region_type = "BadMemory"

(***************************************************************************)
(* Properties of the public interface (specifications SpecPublic, SpecSort)*)
(***************************************************************************)
\* number of slots of the array e that hold x
CountIn(e, x) == Cardinality({i \in 1..Len(e) : e[i] = x})

C12_NewIsEmpty ==
    op = "new"
        => /\ next_entry_index = 0
           /\ Len(entries) = MAX_MEMORY_MAP_SIZE
           /\ \A i \in 1..MAX_MEMORY_MAP_SIZE :
                  /\ entries[i] = [range |-> [start_frame_number |-> 0,
                                              end_frame_number |-> 0],
                                   region_type |-> "Empty"]
                  /\ is_empty(entries[i].range)
           /\ Len(deref) = 0

\* C12 witness: the map as new() returns it, before any insertion.
C12_Witness ==
    /\ op = "new"
    /\ calls = 0
    /\ ~panicked
    /\ deref = <<>>

\* Ordering::reverse
Reverse(o) ==
    IF o = "Less" THEN "Greater" ELSE IF o = "Greater" THEN "Less" ELSE "Equal"

\* C13: the closure of sort() is a total order over all regions:
\* compare(b, a) is the reverse of compare(a, b), the order is transitive,
\* an empty region is greater than any non-empty one, and non-empty regions
\* compare by start_frame_number, then end_frame_number.
C13_CompareIsTotalOrder ==
    op = "compare"
        => LET a == input[1]
               b == input[2]
           IN  /\ compare(b, a) = Reverse(ret)
               /\ \A c \in ComparedRegions :
                      (ret # "Greater" /\ compare(b, c) # "Greater")
                          => compare(a, c) # "Greater"
               /\ (is_empty(a.range) /\ ~is_empty(b.range))
                      => ret = "Greater"
               /\ (~is_empty(a.range) /\ is_empty(b.range)) => ret = "Less"
               /\ (~is_empty(a.range) /\ ~is_empty(b.range))
                      => ret = (IF a.range = b.range THEN "Equal"
                                ELSE IF KeyLeq(a, b) THEN "Less"
                                ELSE "Greater")

\* the ranges of the regions of s, in order
RangesOf(s) == [i \in 1..Len(s) |-> s[i].range]

\* C14: on a map built by add_region calls, sort() leaves next_entry_index
\* and the sequence of ranges of the read view unchanged; on a full map
\* next_entry_index stays MAX_MEMORY_MAP_SIZE.
C14_SortIdempotent ==
    [][op' = "sort"
           => /\ next_entry_index' = next_entry_index
              /\ RangesOf(SubSeq(entries', 1, next_entry_index'))
                     = RangesOf(deref)]_vars

\* C14 witness: sort() was called on a full map that holds two regions
\* with the same range.
C14_Witness ==
    /\ op = "sort"
    /\ calls = MAX_MEMORY_MAP_SIZE
    /\ next_entry_index = MAX_MEMORY_MAP_SIZE
    /\ \E i \in 1..(MAX_MEMORY_MAP_SIZE - 1) :
           /\ entries[i].range = entries[i + 1].range
           /\ entries[i] # entries[i + 1]

\* C15: whatever add_region, sort and writes through the mutable
\* dereference did, 0 <= next_entry_index <= MAX_MEMORY_MAP_SIZE, the array
\* keeps its size, and the read view entries[0..next_entry_index] exists.
C15_IndexInBounds ==
    /\ next_entry_index \in 0..MAX_MEMORY_MAP_SIZE
    /\ Len(entries) = MAX_MEMORY_MAP_SIZE
    /\ Len(deref) = next_entry_index

\* C15 witness: a full map of non-empty regions lost an entry to a write
\* of the placeholder, and sort() has recomputed next_entry_index.
C15_Witness ==
    /\ op = "sort"
    /\ calls = MAX_MEMORY_MAP_SIZE
    /\ \A r \in AddedSet : ~is_empty(r.range)
    /\ next_entry_index = MAX_MEMORY_MAP_SIZE - 1
    /\ entries[MAX_MEMORY_MAP_SIZE] = MemoryRegion_empty

\* C16: for a descriptor with a type code in 1..5 the conversion returns
\* the range of FrameRange::new(start_addr, start_addr + len) computed
\* without wrap-around; with len >= 1 the range is non-empty and covers
\* [start_addr, start_addr + len); with len = 0 it is empty.
C16_ConvertedRangeCovers ==
    (op = "from" /\ input.region_type \in 1..5)
        => /\ ~panicked
           /\ region.range.start_frame_number = FloorFrame(input.start_addr)
           /\ input.start_addr + input.len >= 1
                  => region.range.end_frame_number
                         = ((input.start_addr + input.len - 1)
                                \div PAGE_SIZE) + 1
           /\ input.len >= 1
                  => /\ ~is_empty(region.range)
                     /\ ~start_addr(region.range).panic
                     /\ start_addr(region.range).value <= input.start_addr
                     /\ ~end_addr(region.range).panic
                     /\ end_addr(region.range).value
                            >= input.start_addr + input.len
           /\ input.len = 0 => is_empty(region.range)

====
